---- MODULE Spec2Model ----
(***************************************************************************)
(* Model of the datadog-unix-agent runtime: the Agent.run orchestration    *)
(* path, the AgentRunner collection loop (agent.py) and the bundled        *)
(* IBM WAS check (ibm_was.py).                                             *)
(***************************************************************************)
EXTENDS Integers, Sequences, FiniteSets, TLC

\* ---------------------------------------------------------------- bounds
MaxTime ==
    3
MaxCycles ==
    3

\* ------------------------------------------------------------- variables
VARIABLES
    cfg,          \* configuration read by Agent.run / AgentRunner
    mpc,          \* position of the main control path in Agent.run
    exitCode,     \* <<status>> once sys.exit(status) was called, else <<>>
    mlog,         \* calls made by the main path, in order
    comp,         \* thread state of forwarder, api, reporter, dsd
    stopReq,      \* components on which stop() has been called
    registered,   \* names registered with the SignalHandler, in order
    handled,      \* signals for which handler.handle() was called
    signalled,    \* a handled signal has been delivered
    hpc,          \* SignalHandler thread state
    hIdx,         \* next registered component the handler will stop
    dsdErr,       \* the dogstatsd runner terminated with an error
    rpc,          \* AgentRunner thread position
    event,        \* AgentRunner._event
    meta_ts,      \* AgentRunner._meta_ts
    current_ts,   \* last value read from time.monotonic()
    cycle,        \* number of cycles entered so far
    sleeps,       \* number of inter-cycle sleeps completed so far
    sleepsAfterStop, \* sleeps completed while the event was set
    startEvents,  \* submit_metadata calls whose payload had start_event=true
    metaFailed,   \* some metadata step has raised so far
    cyc,          \* record of the cycle in flight (CollectionCycle)
    instance,     \* instance mapping handed to IbmWasCheck.__init__
    chk,          \* the constructed IbmWasCheck, NotConstructed or Failed
    checkOut      \* what the last execution of check() emitted

agentVars ==
    <<cfg, mpc, exitCode, mlog, comp, stopReq, registered, handled,
      signalled, hpc, hIdx, dsdErr>>
runnerVars ==
    <<rpc, event, meta_ts, current_ts, cycle, sleeps, sleepsAfterStop,
      startEvents, metaFailed, cyc>>
checkVars ==
    <<instance, chk, checkOut>>
vars ==
    <<agentVars, runnerVars, checkVars>>

\* ------------------------------------------------------------------ text
\* Python strings are tuples of one-character strings, so that formatting
\* and normalisation are computed and not assumed.
NoneText ==
    <<"None">>

UpperChars ==
    <<"A","B","C","D","E","F","G","H","I","J","K","L","M",
      "N","O","P","Q","R","S","T","U","V","W","X","Y","Z">>
LowerChars ==
    <<"a","b","c","d","e","f","g","h","i","j","k","l","m",
      "n","o","p","q","r","s","t","u","v","w","x","y","z">>
DigitChars ==
    {"0","1","2","3","4","5","6","7","8","9"}

Range(s) ==
    {s[i] : i \in DOMAIN s}

Lower(c) ==
    IF c \in Range(UpperChars)
        THEN LowerChars[CHOOSE i \in DOMAIN UpperChars : UpperChars[i] = c]
        ELSE c

IsAlnum(c) ==
    c \in Range(UpperChars) \cup Range(LowerChars) \cup DigitChars

\* '{}:{}'.format(key, value)
FormatTag(key, value) ==
    key \o <<":">> \o value

\* one character of a normalised metric name
NormChar(c) ==
    IF IsAlnum(c) THEN Lower(c) ELSE IF c = "." THEN "." ELSE "_"

RECURSIVE Collapse(_)
Collapse(s) ==
    IF Len(s) < 2 THEN s
    ELSE IF s[1] = "_" /\ s[2] = "_" THEN Collapse(Tail(s))
    ELSE <<s[1]>> \o Collapse(Tail(s))

NormText(s) ==
    Collapse([i \in DOMAIN s |-> NormChar(s[i])])

\* AgentCheck.normalize(metric, prefix=..., fix_case=True)
normalize(metric, prefix) ==
    NormText(prefix) \o <<".">> \o NormText(metric)

\* XPath normalize-space(): strip, and collapse inner runs of blanks
RECURSIVE SquashSpace(_)
SquashSpace(s) ==
    IF Len(s) < 2 THEN s
    ELSE IF s[1] = " " /\ s[2] = " " THEN SquashSpace(Tail(s))
    ELSE <<s[1]>> \o SquashSpace(Tail(s))

NormalizeSpace(s) ==
    LET q == SquashSpace(s)
        a == IF Len(q) > 0 /\ q[1] = " " THEN Tail(q) ELSE q
    IN  IF Len(a) > 0 /\ a[Len(a)] = " " THEN SubSeq(a, 1, Len(a) - 1) ELSE a

\* ------------------------------------------------------------ dictionaries
\* A Python dict: insertion-ordered keys and a value per key.
EmptyDict ==
    [keys |-> <<>>, val |-> [k \in {} |-> NoneText]]

DictHas(d, k) ==
    k \in DOMAIN d.val

DictSet(d, k, v) ==
    [keys |-> IF DictHas(d, k) THEN d.keys ELSE Append(d.keys, k),
     val  |-> (k :> v) @@ d.val]

\* dict(base, **extra)
RECURSIVE DictMergeFrom(_, _, _)
DictMergeFrom(base, extra, i) ==
    IF i > Len(extra.keys) THEN base
    ELSE DictMergeFrom(DictSet(base, extra.keys[i], extra.val[extra.keys[i]]),
                       extra, i + 1)

DictMerge(base, extra) ==
    DictMergeFrom(base, extra, 1)

\* ----------------------------------------------------- metrics.py tables
T_jvm ==
    <<"j","v","m">>
T_jdbc ==
    <<"j","d","b","c">>
T_servlet_session ==
    <<"s","e","r","v","l","e","t","_","s","e","s","s","i","o","n">>
T_thread_pools ==
    <<"t","h","r","e","a","d","_","p","o","o","l","s">>
T_JVMRuntime ==
    <<"J","V","M"," ","R","u","n","t","i","m","e">>
T_JDBCPools ==
    <<"J","D","B","C"," ","C","o","n","n","e","c","t","i","o","n"," ",
      "P","o","o","l","s">>
T_ServletSession ==
    <<"S","e","r","v","l","e","t"," ","S","e","s","s","i","o","n"," ",
      "M","a","n","a","g","e","r">>
T_ThreadPools ==
    <<"T","h","r","e","a","d"," ","P","o","o","l","s">>
T_provider ==
    <<"p","r","o","v","i","d","e","r">>
T_dataSource ==
    <<"d","a","t","a","S","o","u","r","c","e">>
T_web_application ==
    <<"w","e","b","_","a","p","p">>
T_thread_pool ==
    <<"t","h","r","e","a","d","_","p","o","o","l">>

\* metrics.METRIC_VALUE_FIELDS: leaf type tag -> attribute holding the value
METRIC_VALUE_FIELDS ==
    [AverageStatistic      |-> "mean",
     BoundedRangeStatistic |-> "value",
     CountStatistic        |-> "count",
     DoubleStatistic       |-> "double",
     RangeStatistic        |-> "value",
     TimeStatistic         |-> "totalTime"]

\* metrics.CATEGORY_FIELDS: interior category type tags
CATEGORY_FIELDS ==
    {"Stat"}

\* metrics.METRIC_CATEGORIES: built-in category name -> metric prefix
METRIC_CATEGORIES ==
    [keys |-> <<T_JVMRuntime, T_JDBCPools, T_ServletSession, T_ThreadPools>>,
     val  |-> (T_JVMRuntime :> T_jvm) @@ (T_JDBCPools :> T_jdbc)
              @@ (T_ServletSession :> T_servlet_session)
              @@ (T_ThreadPools :> T_thread_pools)]

\* metrics.NESTED_TAGS: metric prefix -> tag keys, one per recursion depth
NESTED_TAGS ==
    [keys |-> <<T_jdbc, T_servlet_session, T_thread_pools>>,
     val  |-> (T_jdbc :> <<T_provider, T_dataSource>>)
              @@ (T_servlet_session :> <<T_web_application>>)
              @@ (T_thread_pools :> <<T_thread_pool>>)]

\* ------------------------------------------------------------ IbmWasCheck
T_ibm_was ==
    <<"i","b","m","_","w","a","s">>
\* IbmWasCheck.METRIC_PREFIX
METRIC_PREFIX ==
    T_ibm_was
\* IbmWasCheck.SERVICE_CHECK_CONNECT
SERVICE_CHECK_CONNECT ==
    T_ibm_was \o <<".","c","a","n","_","c","o","n","n","e","c","t">>

\* IbmWasCheck.metric_type_mapping: leaf type tag -> submission method
metric_type_mapping ==
    [AverageStatistic      |-> "GAUGE",
     BoundedRangeStatistic |-> "GAUGE",
     CountStatistic        |-> "MONOTONIC_COUNT",
     DoubleStatistic       |-> "RATE",
     RangeStatistic        |-> "GAUGE",
     TimeStatistic         |-> "GAUGE"]

\* utils.util._is_affirmative on an option value
IsAffirmative(v) ==
    v \in {"True", "true", "yes", "1"}

\* instance.get(key, default): the instance is a mapping with the options
\* the user wrote
IGet(inst, key, default) ==
    IF key \in DOMAIN inst THEN inst[key] ELSE default

\* instance.get('collect_<prefix>_stats', True)
CollectOption(inst, prefix) ==
    LET opts == IGet(inst, "collect", [p \in {} |-> "True"])
    IN  IF prefix \in DOMAIN opts THEN opts[prefix] ELSE "True"

\* every built-in category, whatever its option
setup_configured_statsAll(inst) ==
    Range(METRIC_CATEGORIES.keys)

\* IbmWasCheck.setup_configured_stats: the categories whose value is True
setup_configured_stats(inst) ==
    {c \in Range(METRIC_CATEGORIES.keys) :
        IsAffirmative(CollectOption(inst, METRIC_CATEGORIES.val[c]))}

\* validation.validate_query: TRUE when the descriptor has the required shape
validate_query(query) ==
    {"stat", "metric_prefix"} \subseteq DOMAIN query

\* query.get('tag_keys', [])
QueryTagKeys(query) ==
    IF "tag_keys" \in DOMAIN query THEN query["tag_keys"] ELSE <<>>

\* IbmWasCheck.append_custom_queries, queries i.. of the list; acc carries
\* custom_recursion_tags, custom_metric_categories, collect_stats and
\* whether validate_query has raised
RECURSIVE AppendFrom(_, _, _)
\* a loop that passes over a descriptor of the wrong shape
AppendFromSkipInvalid(queries, i, acc) ==
    IF i > Len(queries) THEN acc
    ELSE LET query == queries[i]
         IN  IF ~validate_query(query)
                 THEN AppendFrom(queries, i + 1, acc)
                 ELSE AppendFrom(queries, i + 1,
                        [raised |-> FALSE,
                         categories |-> DictSet(acc.categories, query["stat"],
                                                query["metric_prefix"]),
                         tags |-> DictSet(acc.tags, query["metric_prefix"],
                                          QueryTagKeys(query)),
                         collect_stats |-> acc.collect_stats \cup {query["stat"]}])

AppendFrom(queries, i, acc) ==
    IF i > Len(queries) THEN acc
    ELSE LET query == queries[i]
         IN  IF ~validate_query(query)
                 THEN [acc EXCEPT !.raised = TRUE]
                 ELSE AppendFrom(queries, i + 1,
                        [raised |-> FALSE,
                         categories |-> DictSet(acc.categories, query["stat"],
                                                query["metric_prefix"]),
                         tags |-> DictSet(acc.tags, query["metric_prefix"],
                                          QueryTagKeys(query)),
                         collect_stats |-> acc.collect_stats \cup {query["stat"]}])

append_custom_queries(custom_queries, collect_stats) ==
    LET acc == AppendFrom(custom_queries, 1,
                   [raised |-> FALSE, categories |-> EmptyDict,
                    tags |-> EmptyDict, collect_stats |-> collect_stats])
    IN  [raised |-> acc.raised,
         collect_stats |-> acc.collect_stats,
         nested_tags |-> DictMerge(NESTED_TAGS, acc.tags),
         metric_categories |-> DictMerge(METRIC_CATEGORIES, acc.categories)]

NotConstructed ==
    [state |-> "none"]
ConstructionFailed ==
    [state |-> "failed"]

\* IbmWasCheck.__init__
IbmWasCheck_init(inst) ==
    LET url == IGet(inst, "servlet_url", NoneText)
        custom_tags == IGet(inst, "tags", <<>>)
        r == append_custom_queries(IGet(inst, "custom_queries", <<>>),
                                   setup_configured_stats(inst))
    IN  IF r.raised THEN ConstructionFailed
        ELSE [state |-> "ready",
              url |-> url,
              custom_queries_units_gauge |->
                  Range(IGet(inst, "custom_queries_units_gauge", <<>>)),
              custom_tags |-> custom_tags,
              collect_stats |-> r.collect_stats,
              nested_tags |-> r.nested_tags,
              metric_categories |-> r.metric_categories,
              custom_stats |-> Range(r.nested_tags.keys),
              service_check_tags |->
                  custom_tags \o <<FormatTag(<<"u","r","l">>, url)>>]

\* ---- the statistics document: elements with a tag, attributes, children
Get(el, a) ==
    IF a \in DOMAIN el.attrs THEN el.attrs[a] ELSE NoneText

\* xml_data.findall(path): the direct children with that tag
get_node_from_root(el, path) ==
    SelectSeq(el.children, LAMBDA c : c.tag = path)

\* all descendants in document order
RECURSIVE Descendants(_)
RECURSIVE DescendantsOf(_, _)
DescendantsOf(children, i) ==
    IF i > Len(children) THEN <<>>
    ELSE <<children[i]>> \o Descendants(children[i])
         \o DescendantsOf(children, i + 1)
Descendants(el) ==
    DescendantsOf(el.children, 1)

NoElement ==
    [tag |-> "[]", attrs |-> [a \in {} |-> NoneText], children |-> <<>>]

\* IbmWasCheck.get_node_from_name: first matching Stat below xml_data, or []
get_node_from_name(xml_data, path) ==
    LET data == SelectSeq(Descendants(xml_data),
                    LAMBDA e : e.tag = "Stat"
                               /\ NormalizeSpace(Get(e, "name")) = path)
    IN  IF Len(data) > 0 THEN data[1] ELSE NoElement

\* where a sample comes from (history field, not part of the sample)
NoLeaf ==
    [node |-> 0, server |-> 0, category |-> <<>>, path |-> <<>>]

Sample(name, value, tags, kind, leaf) ==
    [name |-> name, value |-> value, tags |-> tags, kind |-> kind,
     leaf |-> leaf]

DispatchTagAnyType(c, child, prefix) ==
    IF /\ Get(child, "unit") \in c.custom_queries_units_gauge
       /\ prefix \in c.custom_stats
        THEN "TimeStatistic"
        ELSE child.tag

\* the type tag used for the dispatch, lines 138-144
DispatchTag(c, child, prefix) ==
    IF /\ Get(child, "unit") \in c.custom_queries_units_gauge
       /\ prefix \in c.custom_stats
       /\ child.tag = "CountStatistic"
        THEN "TimeStatistic"
        ELSE child.tag

JvmSamplesAnyPrefix(metric_name, value, tags, prefix, leaf) ==
    <<Sample(metric_name \o <<"_","g","a","u","g","e">>, value, tags,
             "GAUGE", leaf)>>

\* the second sample of a leaf, lines 147-150
JvmSamples(metric_name, value, tags, prefix, leaf) ==
    IF prefix = T_jvm
        THEN <<Sample(metric_name \o <<"_","g","a","u","g","e">>, value, tags,
                      "GAUGE", leaf)>>
        ELSE <<>>

\* IbmWasCheck.submit_metrics
submit_metrics(c, child, prefix, tags, leaf) ==
    LET value == Get(child, METRIC_VALUE_FIELDS[child.tag])
        metric_name == normalize(Get(child, "name"),
                                 METRIC_PREFIX \o <<".">> \o prefix)
        tag == DispatchTag(c, child, prefix)
    IN  <<Sample(metric_name, value, tags, metric_type_mapping[tag], leaf)>>
        \o JvmSamples(metric_name, value, tags, prefix, leaf)

\* the tags handed to the recursion for one category child, lines 125-129
RecursionTags(c, prefix, tags, recursion_level, child) ==
    LET has == DictHas(c.nested_tags, prefix)
        tag_list == IF has THEN c.nested_tags.val[prefix] ELSE <<>>
    IN  IF has /\ Len(tag_list) > 0 /\ Len(tag_list) > recursion_level
            THEN tags \o <<FormatTag(tag_list[recursion_level + 1],
                                     Get(child, "name"))>>
            ELSE tags

TagsAfterDescentInPlace(tags, recursion_tags) ==
    recursion_tags

\* the caller's list after the descent into one child: `tags + [...]` builds
\* a new list, the caller's is left as it was
TagsAfterDescent(tags, recursion_tags) ==
    tags

\* IbmWasCheck.process_stats: the samples of the children i.. of stats
RECURSIVE process_stats(_, _, _, _, _, _, _)
process_stats(c, stats, i, prefix, tags, recursion_level, leaf) ==
    IF i > Len(stats.children) THEN <<>>
    ELSE LET child == stats.children[i]
             here == [leaf EXCEPT !.path = Append(@, i)]
             recursion_tags ==
                 RecursionTags(c, prefix, tags, recursion_level, child)
         IN  IF child.tag \in DOMAIN METRIC_VALUE_FIELDS
                 THEN submit_metrics(c, child, prefix, tags, here)
                      \o process_stats(c, stats, i + 1, prefix, tags,
                                       recursion_level, leaf)
             ELSE IF child.tag \in CATEGORY_FIELDS
                 THEN process_stats(c, child, 1, prefix, recursion_tags,
                                    recursion_level + 1, here)
                      \o process_stats(c, stats, i + 1, prefix,
                                       TagsAfterDescent(tags, recursion_tags),
                                       recursion_level, leaf)
             ELSE process_stats(c, stats, i + 1, prefix, tags,
                                recursion_level, leaf)

RECURSIVE Flatten(_)
Flatten(ss) ==
    IF Len(ss) = 0 THEN <<>> ELSE Head(ss) \o Flatten(Tail(ss))

\* the walk of check(): per node, per server, per configured category
CheckWalk(c, root) ==
    LET node_list == get_node_from_root(root, "Node")
        categories == c.metric_categories.keys
        PerServer(n, s, server, node_tags) ==
            LET server_tags ==
                    <<FormatTag(<<"s","e","r","v","e","r">>, Get(server, "name"))>>
                    \o node_tags
            IN  Flatten([k \in DOMAIN categories |->
                    IF categories[k] \in c.collect_stats
                        THEN process_stats(c,
                                 get_node_from_name(server, categories[k]), 1,
                                 c.metric_categories.val[categories[k]],
                                 server_tags, 0,
                                 [node |-> n, server |-> s,
                                  category |-> categories[k], path |-> <<>>])
                        ELSE <<>>])
        PerNode(n) ==
            LET node == node_list[n]
                server_list == get_node_from_root(node, "Server")
                node_tags == c.custom_tags
                    \o <<FormatTag(<<"n","o","d","e">>, Get(node, "name"))>>
            IN  Flatten([s \in DOMAIN server_list |->
                    PerServer(n, s, server_list[s], node_tags)])
    IN  Flatten([n \in DOMAIN node_list |-> PerNode(n)])

\* exception classes with their base classes (requests, lxml, xml.etree)
ExceptionBases ==
    [requests_HTTPError |->
        {"requests_HTTPError", "requests_RequestException", "Exception"},
     requests_ConnectionError |->
        {"requests_ConnectionError", "requests_RequestException", "Exception"},
     requests_ReadTimeout |->
        {"requests_ReadTimeout", "requests_Timeout",
         "requests_RequestException", "Exception"},
     lxml_XMLSyntaxError |->
        {"lxml_XMLSyntaxError", "lxml_ParseError", "lxml_LxmlSyntaxError",
         "lxml_LxmlError", "SyntaxError", "Exception"},
     xml_etree_ParseError |->
        {"xml_etree_ParseError", "SyntaxError", "Exception"},
     ValueError |-> {"ValueError", "Exception"}]

\* `except (classes)` catches exc
IsCaught(exc, classes) ==
    ExceptionBases[exc] \cap classes # {}

\* the exception lxml's etree.fromstring raises on a malformed document
FromStringError ==
    "lxml_XMLSyntaxError"

\* IbmWasCheck.submit_service_checks
submit_service_checks(c, value) ==
    [samples |-> <<Sample(SERVICE_CHECK_CONNECT,
                          IF value = "OK" THEN <<"1">> ELSE <<"0">>,
                          c.service_check_tags, "GAUGE", NoLeaf)>>,
     service_checks |-> <<[name |-> SERVICE_CHECK_CONNECT, status |-> value,
                           tags |-> c.service_check_tags]>>]

Malformed ==
    [tag |-> "<malformed>", attrs |-> [a \in {} |-> NoneText],
     children |-> <<>>]

Outcome(resp, raised, sc, samples, logged) ==
    [state |-> "ran", input |-> resp, raised |-> raised, service_checks |-> sc,
     samples |-> samples, logged |-> logged]

make_requestOkFirst(c, resp) ==
    LET ok == submit_service_checks(c, "OK")
    IN  IF resp.fetch = "ok"
            THEN Outcome(resp, "none", ok.service_checks, ok.samples, <<>>)
        ELSE IF resp.fetch = "requests_HTTPError"
            THEN LET crit == submit_service_checks(c, "CRITICAL")
                 IN  Outcome(resp, resp.fetch,
                             ok.service_checks \o crit.service_checks,
                             ok.samples \o crit.samples, <<"warning">>)
        ELSE IF resp.fetch = "requests_ConnectionError"
            THEN LET crit == submit_service_checks(c, "CRITICAL")
                 IN  Outcome(resp, resp.fetch, crit.service_checks,
                             crit.samples, <<"warning">>)
        ELSE Outcome(resp, resp.fetch, <<>>, <<>>, <<>>)

\* IbmWasCheck.make_request: resp.fetch is "ok" or the exception raised by
\* requests.get / raise_for_status
make_request(c, resp) ==
    IF resp.fetch = "ok"
        THEN LET ok == submit_service_checks(c, "OK")
             IN  Outcome(resp, "none", ok.service_checks, ok.samples, <<>>)
    ELSE IF IsCaught(resp.fetch, {"requests_HTTPError", "requests_ConnectionError"})
        THEN LET crit == submit_service_checks(c, "CRITICAL")
             IN  Outcome(resp, resp.fetch, crit.service_checks, crit.samples,
                         <<"warning">>)
    ELSE Outcome(resp, resp.fetch, <<>>, <<>>, <<>>)

\* IbmWasCheck.check
check(c, resp) ==
    IF c.url = NoneText \/ c.url = <<>>
        THEN Outcome(resp, "ValueError", <<>>, <<>>, <<>>)
    ELSE LET req == make_request(c, resp)
         IN  IF req.raised # "none" THEN req
             ELSE IF resp.content = Malformed
                 THEN IF IsCaught(FromStringError, {"xml_etree_ParseError"})
                         THEN LET crit == submit_service_checks(c, "CRITICAL")
                              IN  Outcome(resp, "none",
                                      req.service_checks \o crit.service_checks,
                                      req.samples \o crit.samples,
                                      <<"error">>)
                         ELSE [req EXCEPT !.raised = FromStringError]
             ELSE [req EXCEPT !.samples = @ \o CheckWalk(c, resp.content)]

\* ------------------------------------------------ inputs of the check
T_requestCount ==
    <<"r","e","q","u","e","s","t","C","o","u","n","t">>
T_ObjPool ==
    <<"O","b","j"," ","P","o","o","l">>
T_ObjPoolPadded ==
    <<" ","O","b","j"," "," ","P","o","o","l"," ">>
T_objPool ==
    <<"o","b","j","P","o","o","l">>
T_ms ==
    <<"m","s">>
T_url ==
    <<"h","t","t","p",":","/","/","w","a","s">>

El(tag, attrs, children) ==
    [tag |-> tag, attrs |-> attrs, children |-> children]

NoAttrs ==
    [a \in {} |-> NoneText]

Named(name) ==
    ("name" :> name)

\* a leaf metric node; unit NoneText stands for a leaf without unit
Leaf(tag, name, unit, value) ==
    El(tag,
       IF unit = NoneText
           THEN ("name" :> name) @@ (METRIC_VALUE_FIELDS[tag] :> value)
           ELSE ("name" :> name) @@ ("unit" :> unit)
                @@ (METRIC_VALUE_FIELDS[tag] :> value),
       <<>>)

LeafTags ==
    DOMAIN METRIC_VALUE_FIELDS
Units ==
    {NoneText, T_ms, <<"n">>}
DocCategories ==
    {T_JVMRuntime, T_JDBCPools, T_ObjPoolPadded}

\* one node, one server, one category with categories nested three deep,
\* sibling categories, an unknown element and leaves at every depth
DeepDoc(cat, t, u) ==
    El("PerformanceMonitor", NoAttrs, <<
      El("Node", Named(<<"N","1">>), <<
        El("Server", Named(<<"S","1">>), <<
          El("Stat", Named(cat), <<
            Leaf(t, T_requestCount, u, <<"7">>),
            El("Stat", Named(<<"A">>), <<
              Leaf(t, <<"x"," ","-","Y">>, u, <<"1">>),
              El("Stat", Named(<<"B">>), <<
                Leaf("CountStatistic", <<"b">>, u, <<"2">>),
                El("Stat", Named(<<"C">>), <<
                  Leaf(t, <<"c">>, T_ms, <<"3">>) >>) >>),
              El("Stat", Named(<<"D">>), <<
                Leaf(t, <<"d">>, u, <<"4">>) >>) >>),
            El("Comment", NoAttrs, <<>>),
            El("Stat", Named(<<"E">>), <<
              Leaf("DoubleStatistic", <<"e">>, u, <<"5">>) >>),
            Leaf(t, <<"z">>, u, <<"6">>) >>) >>) >>),
      El("Comment", NoAttrs, <<>>) >>)

\* two nodes, two servers, two categories per server
WideServer(name) ==
    El("Server", Named(name), <<
      El("Stat", Named(T_JVMRuntime), <<
        Leaf("CountStatistic", T_requestCount, T_ms, <<"7">>) >>),
      El("Stat", Named(T_JDBCPools), <<
        El("Stat", Named(<<"P">>), <<
          Leaf("TimeStatistic", <<"w">>, T_ms, <<"8">>) >>) >>) >>)

WideDoc ==
    El("PerformanceMonitor", NoAttrs, <<
      El("Node", Named(<<"N","1">>),
         <<WideServer(<<"S","1">>), WideServer(<<"S","2">>)>>),
      El("Node", Named(<<"N","2">>), <<WideServer(<<"S","1">>)>>) >>)

\* the scenario document: node N1, server S1, requestCount under jvm
ScenarioDoc ==
    El("PerformanceMonitor", NoAttrs, <<
      El("Node", Named(<<"N","1">>), <<
        El("Server", Named(<<"S","1">>), <<
          El("Stat", Named(T_JVMRuntime), <<
            Leaf("CountStatistic", T_requestCount, NoneText, <<"7">>)
          >>) >>) >>) >>)

\* a well-formed document without any node
EmptyDoc ==
    El("PerformanceMonitor", NoAttrs, <<>>)

Docs ==
    {DeepDoc(cat, t, u) : cat \in DocCategories, t \in LeafTags, u \in Units}
    \cup {WideDoc, ScenarioDoc, EmptyDoc}

NoContent ==
    El("<none>", NoAttrs, <<>>)

FetchErrors ==
    {"requests_HTTPError", "requests_ConnectionError", "requests_ReadTimeout"}

\* what the servlet answers: a failed fetch, or a fetched body
Responses(docs) ==
    {[fetch |-> f, content |-> NoContent] : f \in FetchErrors}
    \cup {[fetch |-> "ok", content |-> d] : d \in docs \cup {Malformed}}

Query(stat, metric_prefix, tag_keys) ==
    ("stat" :> stat) @@ ("metric_prefix" :> metric_prefix)
    @@ ("tag_keys" :> tag_keys)

QueryLists ==
    { <<>>,
      <<Query(T_ObjPool, T_objPool, <<<<"k","1">>>>)>>,
      <<Query(T_JVMRuntime, T_jvm, <<<<"a","r","e","a">>>>)>>,
      <<("stat" :> T_ObjPool) @@ ("metric_prefix" :> T_jdbc)>>,
      <<("stat" :> T_ObjPool)>>,
      <<Query(T_ObjPool, T_objPool, <<>>), ("metric_prefix" :> T_objPool)>>,
      <<Query(T_ObjPool, T_jvm, <<>>),
        Query(T_ObjPool, T_objPool, <<<<"k","1">>, <<"k","2">>>>)>>,
      <<Query(T_JDBCPools, <<"p","o","o","l">>, <<T_provider>>)>> }

CollectOptions ==
    { [p \in {} |-> "True"], (T_jdbc :> "False"), (T_jvm :> "no") }

Instances ==
    { ("servlet_url" :> T_url) @@ ("custom_queries" :> q)
      @@ ("custom_queries_units_gauge" :> g) @@ ("tags" :> tg)
      @@ ("collect" :> co) :
        q \in QueryLists, g \in {<<>>, <<T_ms>>},
        tg \in {<<>>, <<<<"e","n","v",":","x">>>>}, co \in CollectOptions }
    \cup { ("custom_queries" :> <<>>) }

\* the instance and the answers of the servlet used under the scheduler
DefaultInstance ==
    ("servlet_url" :> T_url)
SchedResponses ==
    {[fetch |-> "requests_HTTPError", content |-> NoContent],
     [fetch |-> "requests_ConnectionError", content |-> NoContent],
     [fetch |-> "ok", content |-> ScenarioDoc]}

NoOutcome ==
    [state |-> "none"]

\* Collector.run_checks on the check: the check's own exception is isolated
\* inside the collector and does not propagate to the caller
Collector_run_checks(c, resp) ==
    [out |-> IF c.state = "ready" THEN check(c, resp) ELSE NoOutcome,
     propagated |-> "none"]

\* ------------------------------------------------------------ AgentRunner
NoneTs ==
    -1

InCycle ==
    {"meta", "checks", "push"}

LoopCondAlways(ev) ==
    TRUE

\* while not self._event.is_set()
LoopCond(ev) ==
    ~ev

MetaDueStrict(ts, now, interval) ==
    ts = NoneTs \/ (now - ts) > interval

\* the condition of line 66
MetaDue(ts, now, interval) ==
    ts = NoneTs \/ (now - ts) >= interval

\* start_event=(self._meta_ts is None)
StartEvent(ts) ==
    ts = NoneTs

OnExceptionPropagate ==
    "done"

\* a handler that goes on with serialize_and_push
OnExceptionResume ==
    "push"

\* where the thread goes when a step of the try block raises: the except
\* clause logs and falls through to the sleep
OnException ==
    "sleep"

AgentRunner_stopNoSet(ev) ==
    ev

\* the value of _event after AgentRunner.stop()
AgentRunner_stop(ev) ==
    TRUE

NewCycle(prev_ts, prev_raised) ==
    [meta |-> "pending", start_event |-> FALSE, prev_ts |-> prev_ts,
     checks |-> "pending", push |-> "pending", prev_raised |-> prev_raised]

CycleRaised(c) ==
    c.meta \in {"build_raise", "submit_raise"} \/ c.checks = "raise"
    \/ c.push = "raise"

\* loop-top, flag clear: read the clock and enter a cycle
collection_enter ==
    /\ rpc = "top"
    /\ LoopCond(event)
    /\ cycle < MaxCycles
    /\ \E t \in current_ts..MaxTime : current_ts' = t
    /\ rpc' = "meta"
    /\ cycle' = cycle + 1
    /\ cyc' = NewCycle(meta_ts, CycleRaised(cyc))
    /\ checkOut' = NoOutcome
    /\ UNCHANGED <<event, meta_ts, sleeps, sleepsAfterStop, startEvents,
                   metaFailed, agentVars, instance, chk>>

\* loop-top, flag set: collection() returns and the thread ends
collection_exit ==
    /\ rpc = "top"
    /\ ~LoopCond(event)
    /\ rpc' = "done"
    /\ UNCHANGED <<event, meta_ts, current_ts, cycle, sleeps, sleepsAfterStop,
                   startEvents, metaFailed, cyc, agentVars, checkVars>>

\* a loop that records the time before it builds and submits the payload
collection_metadataRecordFirst ==
    /\ rpc = "meta"
    /\ IF MetaDue(meta_ts, current_ts, cfg.host_metadata_interval)
         THEN \E outcome \in {"ok", "build_raise", "submit_raise"} :
                /\ cyc' = [cyc EXCEPT !.meta = outcome,
                                      !.start_event = StartEvent(meta_ts)]
                /\ startEvents' =
                     IF outcome # "build_raise" /\ StartEvent(meta_ts)
                         THEN startEvents + 1 ELSE startEvents
                /\ meta_ts' = current_ts
                /\ metaFailed' = (metaFailed \/ outcome # "ok")
                /\ rpc' = IF outcome = "ok" THEN "checks" ELSE OnException
         ELSE /\ cyc' = [cyc EXCEPT !.meta = "skipped"]
              /\ rpc' = "checks"
              /\ UNCHANGED <<startEvents, meta_ts, metaFailed>>
    /\ UNCHANGED <<event, current_ts, cycle, sleeps, sleepsAfterStop,
                   agentVars, checkVars>>

\* lines 66-69; outcome says which call raised, if any
collection_metadata ==
    /\ rpc = "meta"
    /\ IF MetaDue(meta_ts, current_ts, cfg.host_metadata_interval)
         THEN \E outcome \in {"ok", "build_raise", "submit_raise"} :
                /\ cyc' = [cyc EXCEPT !.meta = outcome,
                                      !.start_event = StartEvent(meta_ts)]
                /\ startEvents' =
                     IF outcome # "build_raise" /\ StartEvent(meta_ts)
                         THEN startEvents + 1 ELSE startEvents
                /\ meta_ts' = IF outcome = "ok" THEN current_ts ELSE meta_ts
                /\ metaFailed' = (metaFailed \/ outcome # "ok")
                /\ rpc' = IF outcome = "ok" THEN "checks" ELSE OnException
         ELSE /\ cyc' = [cyc EXCEPT !.meta = "skipped"]
              /\ rpc' = "checks"
              /\ UNCHANGED <<startEvents, meta_ts, metaFailed>>
    /\ UNCHANGED <<event, current_ts, cycle, sleeps, sleepsAfterStop,
                   agentVars, checkVars>>

\* line 71: run_checks either raises or runs the check against the servlet
collection_run_checks ==
    /\ rpc = "checks"
    /\ \/ /\ cyc' = [cyc EXCEPT !.checks = "raise"]
          /\ rpc' = OnException
          /\ UNCHANGED checkOut
       \/ \E resp \in SchedResponses :
            LET r == Collector_run_checks(chk, resp)
            IN  /\ checkOut' = r.out
                /\ cyc' = [cyc EXCEPT !.checks =
                             IF r.propagated = "none" THEN "ok" ELSE "raise"]
                /\ rpc' = IF r.propagated = "none" THEN "push" ELSE OnException
    /\ UNCHANGED <<event, meta_ts, current_ts, cycle, sleeps, sleepsAfterStop,
                   startEvents, metaFailed, agentVars, instance, chk>>

\* line 72
collection_push ==
    /\ rpc = "push"
    /\ \E raised \in BOOLEAN :
         /\ cyc' = [cyc EXCEPT !.push = IF raised THEN "raise" ELSE "ok"]
         /\ rpc' = IF raised THEN OnException ELSE "sleep"
    /\ UNCHANGED <<event, meta_ts, current_ts, cycle, sleeps, sleepsAfterStop,
                   startEvents, metaFailed, agentVars, checkVars>>

\* line 76
collection_sleep ==
    /\ rpc = "sleep"
    /\ rpc' = "top"
    /\ sleeps' = sleeps + 1
    /\ sleepsAfterStop' =
         IF "runner" \in stopReq THEN sleepsAfterStop + 1 ELSE sleepsAfterStop
    /\ UNCHANGED <<event, meta_ts, current_ts, cycle, startEvents, metaFailed,
                   cyc, agentVars, checkVars>>

RunnerNext ==
    \/ collection_enter
    \/ collection_exit
    \/ collection_metadata
    \/ collection_run_checks
    \/ collection_push
    \/ collection_sleep

\* -------------------------------------------------------------- Agent.run
MainProgramForwarderEarly ==
    <<"get_hostname", "forwarder_start", "check_dd_url", "check_api_key",
      "instantiate", "init_dsd", "register", "handle", "handler_start",
      "runner_start", "api_start", "reporter_start", "dsd_start", "dsd_join",
      "dsd_status", "runner_join", "api_join", "handler_stop", "handler_join",
      "exit">>

MainProgramHandlerFirst ==
    <<"get_hostname", "check_dd_url", "check_api_key", "forwarder_start",
      "instantiate", "init_dsd", "register", "handle", "handler_start",
      "runner_start", "api_start", "reporter_start", "dsd_start", "dsd_join",
      "dsd_status", "handler_stop", "handler_join", "runner_join", "api_join",
      "exit">>

MainProgramForwarderLate ==
    <<"get_hostname", "check_dd_url", "check_api_key",
      "instantiate", "init_dsd", "register", "handle", "handler_start",
      "runner_start", "api_start", "forwarder_start", "reporter_start",
      "dsd_start", "dsd_join", "dsd_status", "runner_join", "api_join",
      "handler_stop", "handler_join", "exit">>

\* the statements of Agent.run that act on components, in program order
MainProgram ==
    <<"get_hostname", "check_dd_url", "check_api_key", "forwarder_start",
      "instantiate", "init_dsd", "register", "handle", "handler_start",
      "runner_start", "api_start", "reporter_start", "dsd_start", "dsd_join",
      "dsd_status", "runner_join", "api_join", "handler_stop", "handler_join",
      "exit">>

\* the statements under `if dsd_enable:`
DsdOnly ==
    {"init_dsd", "reporter_start", "dsd_start", "dsd_join", "dsd_status"}

Program(dsd_enable) ==
    SelectSeq(MainProgram, LAMBDA l : dsd_enable \/ l \notin DsdOnly)

After(l) ==
    LET P == Program(cfg.dsd_enable)
        i == CHOOSE j \in DOMAIN P : P[j] = l
    IN  P[i + 1]

Components ==
    {"forwarder", "api", "reporter", "dsd"}

\* Thread.join() on component c returns
IsTerminated(c) ==
    IF c = "runner" THEN rpc = "done"
    ELSE IF c = "handler" THEN hpc = "done"
    ELSE comp[c] = "done"

Step(l) ==
    /\ mpc = l
    /\ mpc' = After(l)

Call(name) ==
    mlog' = Append(mlog, name)

SysExit(code) ==
    /\ exitCode' = <<code>>
    /\ mpc' = "exited"

\* lines 191-195
run_get_hostname ==
    /\ mpc = "get_hostname"
    /\ IF cfg.hostnameOk
         THEN mpc' = After("get_hostname") /\ UNCHANGED exitCode
         ELSE SysExit(1)
    /\ UNCHANGED <<cfg, mlog, comp, stopReq, registered, handled, signalled,
                   hpc, hIdx, dsdErr, runnerVars, checkVars>>

\* lines 203-205
run_check_dd_url ==
    /\ mpc = "check_dd_url"
    /\ IF cfg.dd_url
         THEN mpc' = After("check_dd_url") /\ UNCHANGED exitCode
         ELSE SysExit(1)
    /\ UNCHANGED <<cfg, mlog, comp, stopReq, registered, handled, signalled,
                   hpc, hIdx, dsdErr, runnerVars, checkVars>>

\* lines 206-208
run_check_api_key ==
    /\ mpc = "check_api_key"
    /\ IF cfg.api_key
         THEN mpc' = After("check_api_key") /\ UNCHANGED exitCode
         ELSE SysExit(1)
    /\ UNCHANGED <<cfg, mlog, comp, stopReq, registered, handled, signalled,
                   hpc, hIdx, dsdErr, runnerVars, checkVars>>

\* component.start() called by the main path at statement l
MainStart(l, c) ==
    /\ Step(l)
    /\ Call(c \o ".start")
    /\ comp' = [comp EXCEPT ![c] = "running"]
    /\ UNCHANGED <<cfg, exitCode, stopReq, registered, handled, signalled,
                   hpc, hIdx, dsdErr, runnerVars, checkVars>>

\* component.join() called by the main path at statement l
MainJoin(l, c) ==
    /\ Step(l)
    /\ IsTerminated(c)
    /\ Call(c \o ".join")
    /\ UNCHANGED <<cfg, exitCode, comp, stopReq, registered, handled,
                   signalled, hpc, hIdx, dsdErr, runnerVars, checkVars>>

\* lines 215-220
run_forwarder_start ==
    MainStart("forwarder_start", "forwarder")

\* lines 222-245: aggregator, serializer, collector with its checks, runner
run_instantiate ==
    /\ Step("instantiate")
    /\ chk' = IbmWasCheck_init(instance)
    /\ UNCHANGED <<cfg, exitCode, mlog, comp, stopReq, registered, handled,
                   signalled, hpc, hIdx, dsdErr, runnerVars, instance,
                   checkOut>>

\* lines 253-255
run_init_dsd ==
    /\ Step("init_dsd")
    /\ Call("init_dogstatsd")
    /\ UNCHANGED <<cfg, exitCode, comp, stopReq, registered, handled,
                   signalled, hpc, hIdx, dsdErr, runnerVars, checkVars>>

\* lines 268-275
run_register ==
    /\ Step("register")
    /\ registered' = <<"runner", "forwarder", "api">>
           \o (IF cfg.dsd_enable THEN <<"reporter", "dsd_server">> ELSE <<>>)
    /\ UNCHANGED <<cfg, exitCode, mlog, comp, stopReq, handled, signalled,
                   hpc, hIdx, dsdErr, runnerVars, checkVars>>

\* lines 278-279
run_handle ==
    /\ Step("handle")
    /\ handled' = {"SIGTERM", "SIGINT"}
    /\ UNCHANGED <<cfg, exitCode, mlog, comp, stopReq, registered, signalled,
                   hpc, hIdx, dsdErr, runnerVars, checkVars>>

\* line 282
run_handler_start ==
    /\ Step("handler_start")
    /\ Call("handler.start")
    /\ hpc' = "running"
    /\ UNCHANGED <<cfg, exitCode, comp, stopReq, registered, handled,
                   signalled, hIdx, dsdErr, runnerVars, checkVars>>

\* a runner whose event is created when the thread starts
run_runner_startFreshEvent ==
    /\ Step("runner_start")
    /\ Call("runner.start")
    /\ rpc' = "top"
    /\ event' = FALSE
    /\ UNCHANGED <<cfg, exitCode, comp, stopReq, registered, handled,
                   signalled, hpc, hIdx, dsdErr, meta_ts, current_ts,
                   cycle, sleeps, sleepsAfterStop, startEvents, metaFailed,
                   cyc, checkVars>>

\* line 284: Thread.start() runs AgentRunner.run, which calls collection()
run_runner_start ==
    /\ Step("runner_start")
    /\ Call("runner.start")
    /\ rpc' = "top"
    /\ UNCHANGED <<cfg, exitCode, comp, stopReq, registered, handled,
                   signalled, hpc, hIdx, dsdErr, event, meta_ts, current_ts,
                   cycle, sleeps, sleepsAfterStop, startEvents, metaFailed,
                   cyc, checkVars>>

\* line 285
run_api_start ==
    MainStart("api_start", "api")

\* line 288
run_reporter_start ==
    MainStart("reporter_start", "reporter")

\* line 289
run_dsd_start ==
    MainStart("dsd_start", "dsd")

\* lines 291-292
run_dsd_join ==
    MainJoin("dsd_join", "dsd")

\* a main path that only logs the error of the dogstatsd runner
run_dsd_statusNoStop ==
    /\ Step("dsd_status")
    /\ UNCHANGED <<mlog, stopReq>>
    /\ UNCHANGED <<cfg, exitCode, comp, registered, handled, signalled, hpc,
                   hIdx, dsdErr, runnerVars, checkVars>>

\* lines 293-297
run_dsd_status ==
    /\ Step("dsd_status")
    /\ IF dsdErr
         THEN Call("reporter.stop") /\ stopReq' = stopReq \cup {"reporter"}
         ELSE UNCHANGED <<mlog, stopReq>>
    /\ UNCHANGED <<cfg, exitCode, comp, registered, handled, signalled, hpc,
                   hIdx, dsdErr, runnerVars, checkVars>>

\* lines 299-300
run_runner_join ==
    MainJoin("runner_join", "runner")

\* lines 302-303
run_api_join ==
    MainJoin("api_join", "api")

\* line 305
run_handler_stop ==
    /\ Step("handler_stop")
    /\ Call("handler.stop")
    /\ stopReq' = stopReq \cup {"handler"}
    /\ UNCHANGED <<cfg, exitCode, comp, registered, handled, signalled, hpc,
                   hIdx, dsdErr, runnerVars, checkVars>>

\* lines 306-307
run_handler_join ==
    MainJoin("handler_join", "handler")

\* line 311
run_exit ==
    /\ mpc = "exit"
    /\ SysExit(0)
    /\ UNCHANGED <<cfg, mlog, comp, stopReq, registered, handled, signalled,
                   hpc, hIdx, dsdErr, runnerVars, checkVars>>

MainNext ==
    \/ run_get_hostname
    \/ run_check_dd_url
    \/ run_check_api_key
    \/ run_forwarder_start
    \/ run_instantiate
    \/ run_init_dsd
    \/ run_register
    \/ run_handle
    \/ run_handler_start
    \/ run_runner_start
    \/ run_api_start
    \/ run_reporter_start
    \/ run_dsd_start
    \/ run_dsd_join
    \/ run_dsd_status
    \/ run_runner_join
    \/ run_api_join
    \/ run_handler_stop
    \/ run_handler_join
    \/ run_exit

\* ------------------------------------------- signals and other components
\* a signal for which handle() was called is delivered to the process
Signal ==
    /\ handled # {}
    /\ ~signalled
    /\ mpc # "exited"
    /\ signalled' = TRUE
    /\ UNCHANGED <<cfg, mpc, exitCode, mlog, comp, stopReq, registered,
                   handled, hpc, hIdx, dsdErr, runnerVars, checkVars>>

\* SignalHandler: after a signal, stop() on the registered components, one
\* at a time in registration order
HandlerStopNext ==
    /\ hpc = "running"
    /\ signalled
    /\ hIdx <= Len(registered)
    /\ hIdx' = hIdx + 1
    /\ stopReq' = stopReq \cup {registered[hIdx]}
    /\ event' = IF registered[hIdx] = "runner"
                    THEN AgentRunner_stop(event) ELSE event
    /\ UNCHANGED <<cfg, mpc, exitCode, mlog, comp, registered, handled,
                   signalled, hpc, dsdErr, rpc, meta_ts, current_ts, cycle,
                   sleeps, sleepsAfterStop, startEvents, metaFailed, cyc,
                   checkVars>>

\* SignalHandler.stop() ends the handler's control loop
HandlerExit ==
    /\ hpc = "running"
    /\ "handler" \in stopReq
    /\ hpc' = "done"
    /\ UNCHANGED <<cfg, mpc, exitCode, mlog, comp, stopReq, registered,
                   handled, signalled, hIdx, dsdErr, runnerVars, checkVars>>

\* the stopped API server ends.  The forwarder and the reporter are never
\* joined by Agent.run, so their termination is not followed.
ApiExit ==
    /\ comp["api"] = "running"
    /\ "api" \in stopReq
    /\ comp' = [comp EXCEPT !["api"] = "done"]
    /\ UNCHANGED <<cfg, mpc, exitCode, mlog, stopReq, registered, handled,
                   signalled, hpc, hIdx, dsdErr, runnerVars, checkVars>>

\* DogstatsdRunner ends when its server was stopped
DsdExit ==
    /\ comp["dsd"] = "running"
    /\ "dsd_server" \in stopReq
    /\ comp' = [comp EXCEPT !["dsd"] = "done"]
    /\ UNCHANGED <<cfg, mpc, exitCode, mlog, stopReq, registered, handled,
                   signalled, hpc, hIdx, dsdErr, runnerVars, checkVars>>

\* DogstatsdRunner ends with an error, which raise_for_status() re-raises
DsdFail ==
    /\ comp["dsd"] = "running"
    /\ dsdErr' = TRUE
    /\ comp' = [comp EXCEPT !["dsd"] = "done"]
    /\ UNCHANGED <<cfg, mpc, exitCode, mlog, stopReq, registered, handled,
                   signalled, hpc, hIdx, runnerVars, checkVars>>

\* ---------------------------------------------------------- specification
\* the configured values of host_metadata_interval that are tried
Intervals ==
    {1, 2}

Configs ==
    [hostnameOk : BOOLEAN, dd_url : BOOLEAN, api_key : BOOLEAN,
     dsd_enable : BOOLEAN, host_metadata_interval : Intervals]

InitState ==
    /\ mpc = "get_hostname"
    /\ exitCode = <<>>
    /\ mlog = <<>>
    /\ comp = [c \in Components |-> "new"]
    /\ stopReq = {}
    /\ registered = <<>>
    /\ handled = {}
    /\ signalled = FALSE
    /\ hpc = "new"
    /\ hIdx = 1
    /\ dsdErr = FALSE
    /\ rpc = "new"
    /\ event = FALSE
    /\ meta_ts = NoneTs
    /\ current_ts = 0
    /\ cycle = 0
    /\ sleeps = 0
    /\ sleepsAfterStop = 0
    /\ startEvents = 0
    /\ metaFailed = FALSE
    /\ cyc = NewCycle(NoneTs, FALSE)
    /\ checkOut = NoOutcome

\* Agent.run is followed for every startup configuration; the interval only
\* matters to the runner, which RunnerSpec follows for every interval
Init ==
    /\ InitState
    /\ cfg \in {c \in Configs : c.host_metadata_interval = 2}
    /\ instance = DefaultInstance
    /\ chk = NotConstructed

Next ==
    \/ MainNext
    \/ RunnerNext
    \/ Signal
    \/ HandlerStopNext
    \/ HandlerExit
    \/ ApiExit
    \/ DsdExit
    \/ DsdFail

Spec ==
    Init /\ [][Next]_vars

\* the runner thread is scheduled: each step of its loop terminates
FairSpec ==
    Spec /\ WF_vars(RunnerNext)

\* ---- Agent.run without dogstatsd, every startup value configured: the
\* statements under `if dsd_enable:` are not executed
PlainInit ==
    /\ InitState
    /\ cfg = [hostnameOk |-> TRUE, dd_url |-> TRUE, api_key |-> TRUE,
              dsd_enable |-> FALSE, host_metadata_interval |-> 2]
    /\ instance = DefaultInstance
    /\ chk = NotConstructed

PlainMainNext ==
    \/ run_get_hostname
    \/ run_check_dd_url
    \/ run_check_api_key
    \/ run_forwarder_start
    \/ run_instantiate
    \/ run_register
    \/ run_handle
    \/ run_handler_start
    \/ run_runner_start
    \/ run_api_start
    \/ run_runner_join
    \/ run_api_join
    \/ run_handler_stop
    \/ run_handler_join
    \/ run_exit

PlainNext ==
    \/ PlainMainNext
    \/ RunnerNext
    \/ Signal
    \/ HandlerStopNext
    \/ HandlerExit
    \/ ApiExit

PlainSpec ==
    PlainInit /\ [][PlainNext]_vars

\* the main thread and the runner thread are scheduled
FairPlainSpec ==
    PlainSpec /\ WF_vars(RunnerNext) /\ WF_vars(PlainMainNext)

\* ---- the check on its own: every instance against every response
CheckConstruct ==
    /\ chk = NotConstructed
    /\ chk' = IbmWasCheck_init(instance)
    /\ UNCHANGED <<agentVars, runnerVars, instance, checkOut>>

\* check() keeps no state between executions, so one execution per
\* behaviour covers them all
CheckRun ==
    /\ chk.state = "ready"
    /\ checkOut = NoOutcome
    /\ \E resp \in Responses(Docs) : checkOut' = check(chk, resp)
    /\ UNCHANGED <<agentVars, runnerVars, instance, chk>>

CheckInit ==
    /\ InitState
    /\ cfg = [hostnameOk |-> TRUE, dd_url |-> TRUE, api_key |-> TRUE,
              dsd_enable |-> FALSE, host_metadata_interval |-> 1]
    /\ instance \in Instances
    /\ chk = NotConstructed

CheckNext ==
    \/ CheckConstruct
    \/ CheckRun

CheckSpec ==
    CheckInit /\ [][CheckNext]_vars

\* ---- the AgentRunner thread on its own, with a collector whose check is
\* instantiated: started by Thread.start(), and stop() called by any other
\* thread at any time
Thread_start ==
    /\ rpc = "new"
    /\ rpc' = "top"
    /\ UNCHANGED <<event, meta_ts, current_ts, cycle, sleeps, sleepsAfterStop,
                   startEvents, metaFailed, cyc, agentVars, checkVars>>

stop ==
    /\ event' = AgentRunner_stop(event)
    /\ stopReq' = stopReq \cup {"runner"}
    /\ UNCHANGED <<cfg, mpc, exitCode, mlog, comp, registered, handled,
                   signalled, hpc, hIdx, dsdErr, rpc, meta_ts, current_ts,
                   cycle, sleeps, sleepsAfterStop, startEvents, metaFailed,
                   cyc, checkVars>>

RunnerInit ==
    /\ InitState
    /\ cfg \in {c \in Configs : c.hostnameOk /\ c.dd_url /\ c.api_key
                                /\ ~c.dsd_enable}
    /\ instance = DefaultInstance
    /\ chk = IbmWasCheck_init(instance)

RunnerSpecNext ==
    \/ Thread_start
    \/ stop
    \/ RunnerNext

RunnerSpec ==
    RunnerInit /\ [][RunnerSpecNext]_vars

\* the runner thread is scheduled: each step of its loop terminates
FairRunnerSpec ==
    RunnerSpec /\ WF_vars(RunnerNext)

\* ================================================================ claims
\* ---------------------------------------------------------------- C1
\* C1: while every metadata submission has succeeded, the first cycle submits
\* metadata with start_event=true; a later cycle that starts less than
\* host_metadata_interval after the recorded time submits none and leaves the
\* recorded time alone; a later cycle that starts at or beyond the interval
\* submits with start_event=false and records its own start time.
C1_MetadataSchedule ==
    (cycle >= 1 /\ cyc.meta # "pending" /\ ~metaFailed) =>
        /\ cycle = 1 =>
             /\ cyc.meta = "ok" /\ cyc.start_event /\ meta_ts = current_ts
        /\ cycle > 1 => cyc.prev_ts # NoneTs
        /\ (cycle > 1 /\ current_ts - cyc.prev_ts < cfg.host_metadata_interval)
             => (cyc.meta = "skipped" /\ meta_ts = cyc.prev_ts)
        /\ (cycle > 1 /\ current_ts - cyc.prev_ts >= cfg.host_metadata_interval)
             => (cyc.meta = "ok" /\ ~cyc.start_event /\ meta_ts = current_ts)

C1_Witness ==
    /\ cycle = 3 /\ ~metaFailed
    /\ cyc.meta = "ok" /\ ~cyc.start_event
    /\ cyc.prev_ts = 0 /\ current_ts = cfg.host_metadata_interval

\* ---------------------------------------------------------------- C2
\* C2: the loop has exited only if stop() was called; a cycle that raised is
\* followed by exactly one sleep (the sleeps completed always number the
\* cycles entered, less the one in flight), and at loop-top with the flag
\* clear the next cycle can start.
C2_ExceptionsNeverEndLoop ==
    /\ rpc = "done" => "runner" \in stopReq
    /\ rpc \in InCycle \cup {"sleep"} => sleeps = cycle - 1
    /\ rpc \in {"top", "done"} => sleeps = cycle
    /\ (rpc = "top" /\ ~event /\ cycle < MaxCycles) => ENABLED collection_enter

C2_Witness ==
    /\ rpc = "meta" /\ cyc.prev_raised
    /\ "runner" \notin stopReq
    /\ cycle >= 2

\* ---------------------------------------------------------------- C3
\* C3: the flag is never cleared; once it is set no further cycle is entered
\* (only the cycle already past loop-top goes on); and after the loop has
\* exited the thread takes no further step.
C3_NoCycleAfterStop ==
    [][ /\ event => (event' /\ cycle' = cycle)
        /\ rpc = "done" =>
             (rpc' = "done" /\ UNCHANGED <<cycle, cyc, meta_ts, sleeps,
                                           checkOut, startEvents>>)
      ]_vars

C3_Witness ==
    /\ rpc = "done" /\ event
    /\ sleepsAfterStop = 1
    /\ cyc.push # "pending"

\* ---------------------------------------------------------------- C4
\* C4: once stop() has been called on a started runner, the thread eventually
\* exits (its steps and the sleep terminating); at most one sleep completes
\* after stop(); and stop() changes nothing but the flag.
C4_StopLeadsToExit ==
    /\ ("runner" \in stopReq /\ rpc # "new") ~> (rpc = "done")
    /\ [](sleepsAfterStop <= 1)
    /\ [][event' # event =>
            UNCHANGED <<rpc, meta_ts, current_ts, cycle, sleeps, cyc>>]_vars

C4_Witness ==
    /\ rpc \in InCycle
    /\ "runner" \in stopReq /\ event

\* ---------------------------------------------------------------- C5
\* C5: with no hostname, no dd_url or no api_key, Agent.run never gets past
\* the three startup checks, nothing is started or registered, and it exits
\* with status 1.
StartupFails ==
    ~cfg.hostnameOk \/ ~cfg.dd_url \/ ~cfg.api_key

NothingStarted ==
    /\ \A c \in Components : comp[c] = "new"
    /\ rpc = "new" /\ hpc = "new"
    /\ registered = <<>> /\ handled = {}
    /\ mlog = <<>>

C5_FatalStartupStartsNothing ==
    StartupFails =>
        /\ NothingStarted
        /\ mpc \in {"get_hostname", "check_dd_url", "check_api_key", "exited"}
        /\ mpc = "exited" => exitCode = <<1>>

C5_Witness ==
    /\ cfg.hostnameOk /\ cfg.dd_url /\ ~cfg.api_key
    /\ mpc = "exited" /\ exitCode = <<1>>

\* ---------------------------------------------------------------- C6
JoinCalls ==
    SelectSeq(mlog, LAMBDA e : e \in {"dsd.join", "runner.join", "api.join",
                                      "handler.stop", "handler.join"})

JoinOrder ==
    (IF cfg.dsd_enable THEN <<"dsd.join">> ELSE <<>>)
    \o <<"runner.join", "api.join", "handler.stop", "handler.join">>

IsPrefix(a, b) ==
    Len(a) <= Len(b) /\ a = SubSeq(b, 1, Len(a))

\* C6: the main path joins the dogstatsd runner (when enabled), then the
\* runner, then the API server, then stops and joins the signal handler; the
\* handler is stopped only after runner and API server have terminated; and
\* status 0 is returned only after all joins returned.
C6_JoinOrder ==
    /\ IsPrefix(JoinCalls, JoinOrder)
    /\ "handler" \in stopReq => (rpc = "done" /\ comp["api"] = "done")
    /\ exitCode = <<0>> =>
         /\ JoinCalls = JoinOrder
         /\ hpc = "done" /\ rpc = "done" /\ comp["api"] = "done"
         /\ cfg.dsd_enable => comp["dsd"] = "done"

C6_Witness ==
    /\ exitCode = <<0>> /\ cfg.dsd_enable
    /\ mlog[Len(mlog)] = "handler.join"

\* ------------------------------------------- the leaves of a document
\* the paths (child indices) from el to the leaf metric nodes below it that
\* are reached through category nodes only
RECURSIVE LeafPaths(_)
LeafPaths(el) ==
    UNION { LET ch == el.children[i]
            IN  IF ch.tag \in LeafTags THEN {<<i>>}
                ELSE IF ch.tag \in CATEGORY_FIELDS
                    THEN {<<i>> \o q : q \in LeafPaths(ch)}
                ELSE {}
          : i \in DOMAIN el.children }

RECURSIVE ElementAt(_, _)
ElementAt(el, path) ==
    IF Len(path) = 0 THEN el
    ELSE ElementAt(el.children[Head(path)], Tail(path))

NodeOf(root, l) ==
    get_node_from_root(root, "Node")[l.node]
ServerOf(root, l) ==
    get_node_from_root(NodeOf(root, l), "Server")[l.server]
CategoryRoot(root, l) ==
    get_node_from_name(ServerOf(root, l), l.category)
LeafOf(root, l) ==
    ElementAt(CategoryRoot(root, l), l.path)

\* the leaves a check execution has to translate: per node, per server, per
\* collected category of the check
LeavesOf(c, root) ==
    UNION { UNION { UNION {
        { [node |-> n, server |-> sv, category |-> cat, path |-> q] :
            q \in LeafPaths(get_node_from_name(
                    get_node_from_root(get_node_from_root(root, "Node")[n],
                                       "Server")[sv], cat)) }
        : cat \in Range(c.metric_categories.keys) \cap c.collect_stats }
        : sv \in DOMAIN get_node_from_root(
                    get_node_from_root(root, "Node")[n], "Server") }
        : n \in DOMAIN get_node_from_root(root, "Node") }

\* the check ran to the end of its walk
Walked ==
    /\ checkOut.state = "ran"
    /\ checkOut.raised = "none"
    /\ checkOut.input.content # Malformed

Doc ==
    checkOut.input.content

SamplesOf(l) ==
    SelectSeq(checkOut.samples, LAMBDA x : x.leaf = l)

PrefixOf(l) ==
    chk.metric_categories.val[l.category]

\* the metric prefixes the custom queries of the instance introduce
CustomPrefixes ==
    {q["metric_prefix"] : q \in Range(IGet(instance, "custom_queries", <<>>))}

UnitsGauge ==
    Range(IGet(instance, "custom_queries_units_gauge", <<>>))

GaugeSuffix ==
    <<"_","g","a","u","g","e">>

BaseName(l) ==
    normalize(Get(LeafOf(Doc, l), "name"),
              METRIC_PREFIX \o <<".">> \o PrefixOf(l))

\* the leaf is a count whose unit is to be read as a gauge, under a prefix
\* that a custom query introduced
Remapped(l) ==
    /\ LeafOf(Doc, l).tag = "CountStatistic"
    /\ Get(LeafOf(Doc, l), "unit") \in UnitsGauge
    /\ PrefixOf(l) \in CustomPrefixes

\* the same, for a prefix that is in the check's custom_stats
RemappedInCustomStats(l) ==
    /\ LeafOf(Doc, l).tag = "CountStatistic"
    /\ Get(LeafOf(Doc, l), "unit") \in UnitsGauge
    /\ PrefixOf(l) \in chk.custom_stats

\* one sample under another prefix, two under jvm: base then base_gauge as
\* GAUGE, same value and tags; kind(l) is the kind expected of the base sample
DualEmission(l, kind) ==
    LET ss == SamplesOf(l)
    IN  IF PrefixOf(l) = T_jvm
            THEN /\ Len(ss) = 2
                 /\ ss[1].name = BaseName(l)
                 /\ ss[1].kind = kind
                 /\ ss[2].name = BaseName(l) \o GaugeSuffix
                 /\ ss[2].kind = "GAUGE"
                 /\ ss[2].value = ss[1].value
                 /\ ss[2].tags = ss[1].tags
            ELSE Len(ss) = 1

\* the scenario: N1/S1, CountStatistic requestCount under jvm, no custom
\* query, no extra tag
ScenarioHolds ==
    (/\ Doc = ScenarioDoc
     /\ IGet(instance, "custom_queries", <<>>) = <<>>
     /\ IGet(instance, "tags", <<>>) = <<>>
     /\ T_JVMRuntime \in chk.collect_stats) =>
        LET ss == SelectSeq(checkOut.samples, LAMBDA x : x.leaf # NoLeaf)
            name == <<"i","b","m","_","w","a","s",".","j","v","m",".",
                      "r","e","q","u","e","s","t","c","o","u","n","t">>
        IN  /\ Len(ss) = 2
            /\ ss[1].name = name /\ ss[1].kind = "MONOTONIC_COUNT"
            /\ ss[2].name = name \o GaugeSuffix /\ ss[2].kind = "GAUGE"
            /\ \A i \in 1..2 :
                 Range(ss[i].tags) = {<<"n","o","d","e",":","N","1">>,
                                      <<"s","e","r","v","e","r",":","S","1">>}

\* ---------------------------------------------------------------- C7
\* C7: every leaf translated under the prefix jvm yields exactly two samples,
\* the normalized base name with the kind dispatched from the leaf's type tag
\* (GAUGE for a CountStatistic whose unit is in custom_queries_units_gauge
\* when jvm is in custom_stats, the dispatch table's kind otherwise) and
\* base_gauge as GAUGE, with the same value and tags; a leaf under any other
\* prefix yields one sample; the N1/S1 requestCount scenario holds.
C7_DualEmission ==
    Walked =>
        /\ \A l \in LeavesOf(chk, Doc) :
             DualEmission(l, IF RemappedInCustomStats(l) THEN "GAUGE"
                             ELSE metric_type_mapping[LeafOf(Doc, l).tag])
        /\ ScenarioHolds

C7_Witness ==
    /\ Walked
    /\ T_jvm \in CustomPrefixes
    /\ \E l \in LeavesOf(chk, Doc) :
         /\ PrefixOf(l) = T_jvm /\ RemappedInCustomStats(l)
         /\ Len(SamplesOf(l)) = 2 /\ SamplesOf(l)[1].kind = "GAUGE"
    /\ \E l \in LeavesOf(chk, Doc) :
         PrefixOf(l) # T_jvm /\ Len(SamplesOf(l)) = 1

\* ---------------------------------------------------------------- C8
\* C8: the base sample of a CountStatistic leaf whose unit is in
\* custom_queries_units_gauge, under a prefix introduced by a custom query,
\* is a GAUGE; the base sample of a leaf of any other type has the kind of
\* the dispatch table, whatever its unit.
C8_CountToGauge ==
    Walked =>
        \A l \in LeavesOf(chk, Doc) :
            /\ Len(SamplesOf(l)) >= 1
            /\ Remapped(l) => SamplesOf(l)[1].kind = "GAUGE"
            /\ LeafOf(Doc, l).tag # "CountStatistic" =>
                 SamplesOf(l)[1].kind = metric_type_mapping[LeafOf(Doc, l).tag]

C8_Witness ==
    /\ Walked
    /\ \E l \in LeavesOf(chk, Doc) :
         /\ Remapped(l) /\ PrefixOf(l) = T_objPool
         /\ SamplesOf(l)[1].kind = "GAUGE"
    /\ \E l \in LeavesOf(chk, Doc) :
         /\ LeafOf(Doc, l).tag = "DoubleStatistic"
         /\ Get(LeafOf(Doc, l), "unit") \in UnitsGauge
         /\ PrefixOf(l) \in CustomPrefixes
         /\ SamplesOf(l)[1].kind = "RATE"

\* ---------------------------------------------------------------- C9
\* the tags of the server: 'server:<name>', the custom tags, 'node:<name>'
ServerTags(l) ==
    <<FormatTag(<<"s","e","r","v","e","r">>, Get(ServerOf(Doc, l), "name"))>>
    \o IGet(instance, "tags", <<>>)
    \o <<FormatTag(<<"n","o","d","e">>, Get(NodeOf(Doc, l), "name"))>>

\* the tag-key list the check holds for the prefix of l, <<>> when it has none
TagKeys(l) ==
    IF DictHas(chk.nested_tags, PrefixOf(l))
        THEN chk.nested_tags.val[PrefixOf(l)] ELSE <<>>

\* the category entered at depth d - 1 on the way to l
CategoryAt(l, d) ==
    ElementAt(CategoryRoot(Doc, l), SubSeq(l.path, 1, d))

\* one tag per category on the way to l whose depth has a tag key
PathTags(l) ==
    LET n == Len(l.path) - 1
    IN  IF n = 0 THEN <<>>
        ELSE Flatten([d \in 1..n |->
                 IF d <= Len(TagKeys(l))
                     THEN <<FormatTag(TagKeys(l)[d],
                                      Get(CategoryAt(l, d), "name"))>>
                     ELSE <<>>])

\* C9: every sample of a leaf carries the tags of its server followed by
\* '<key at d>:<name>' for each category entered at a depth d that has a tag
\* key, and nothing else: no tag of a sibling category, and no tag left
\* behind in the list of a caller.
C9_TagsFollowDepth ==
    Walked =>
        \A l \in LeavesOf(chk, Doc) :
            /\ Len(SamplesOf(l)) >= 1
            /\ \A i \in DOMAIN SamplesOf(l) :
                 SamplesOf(l)[i].tags = ServerTags(l) \o PathTags(l)

C9_Witness ==
    /\ Walked
    /\ PrefixOf([category |-> T_JDBCPools]) = T_jdbc
    /\ \E l \in LeavesOf(chk, Doc) :
         /\ l.category = T_JDBCPools
         /\ Len(l.path) = 4
         /\ Len(PathTags(l)) = 2
         /\ SamplesOf(l)[1].tags = ServerTags(l) \o PathTags(l)
    /\ \E l \in LeavesOf(chk, Doc) :
         /\ l.category = T_JDBCPools
         /\ l.path = <<5>>
         /\ SamplesOf(l)[1].tags = ServerTags(l)

\* ---------------------------------------------------------------- C10
FetchFailed ==
    /\ checkOut.state = "ran"
    /\ checkOut.input.fetch \in {"requests_HTTPError", "requests_ConnectionError"}

\* C10: when the fetch fails with a connection error or an HTTP error status,
\* the execution emits exactly one service check, CRITICAL, and no sample
\* from the document; the check is aborted by the exception, run_checks
\* still returns normally, the cycle goes on to serialize_and_push, and the
\* loop ends only by stop().
C10_FetchFailureConfined ==
    FetchFailed =>
        /\ Len(checkOut.service_checks) = 1
        /\ checkOut.service_checks[1].status = "CRITICAL"
        /\ \A i \in DOMAIN checkOut.samples : checkOut.samples[i].leaf = NoLeaf
        /\ checkOut.raised = checkOut.input.fetch
        /\ cyc.checks = "ok"
        /\ rpc \in {"push", "sleep", "top", "done"}
        /\ rpc = "done" => "runner" \in stopReq

C10_Witness ==
    /\ FetchFailed
    /\ checkOut.input.fetch = "requests_HTTPError"
    /\ rpc = "sleep" /\ cyc.push = "ok"
    /\ "runner" \notin stopReq

\* ---------------------------------------------------------------- C11
\* the servlet answered and check() went on to parse a malformed body
ParseFailed ==
    /\ checkOut.state = "ran"
    /\ chk.url # NoneText
    /\ checkOut.input.fetch = "ok"
    /\ checkOut.input.content = Malformed

Emits(status) ==
    \E i \in DOMAIN checkOut.service_checks :
        checkOut.service_checks[i].status = status

\* C11: when the fetched document is malformed, the execution emits a
\* CRITICAL service check, logs the error, emits no sample from the
\* document, and returns normally (no exception leaves check()).
C11_MalformedDegrades ==
    ParseFailed =>
        /\ Emits("CRITICAL")
        /\ "error" \in Range(checkOut.logged)
        /\ \A i \in DOMAIN checkOut.samples : checkOut.samples[i].leaf = NoLeaf
        /\ checkOut.raised = "none"

\* what the code does instead: the XMLSyntaxError of lxml leaves check(),
\* nothing is logged and no CRITICAL is emitted
C11_Witness ==
    /\ ParseFailed
    /\ checkOut.raised = "lxml_XMLSyntaxError"
    /\ ~Emits("CRITICAL")
    /\ checkOut.logged = <<>>

\* ---------------------------------------------------------------- C12
\* C12: an execution emits an OK service check exactly when both the fetch
\* and the parse succeeded, whatever samples the document gave, and no
\* execution emits both OK and CRITICAL.
C12_OkIffFetchedAndParsed ==
    checkOut.state = "ran" =>
        /\ Emits("OK") <=> (/\ chk.url # NoneText
                            /\ checkOut.input.fetch = "ok"
                            /\ checkOut.input.content # Malformed)
        /\ ~(Emits("OK") /\ Emits("CRITICAL"))

\* OK was emitted although the parse failed
C12_Witness ==
    /\ ParseFailed
    /\ Emits("OK")

\* ---------------------------------------------------------------- C13
\* some descriptor of the instance lacks a required field
InvalidQuery ==
    \E i \in DOMAIN IGet(instance, "custom_queries", <<>>) :
        LET q == IGet(instance, "custom_queries", <<>>)[i]
        IN  "stat" \notin DOMAIN q \/ "metric_prefix" \notin DOMAIN q

BuiltInCategories ==
    {T_JVMRuntime, T_JDBCPools, T_ServletSession, T_ThreadPools}

\* the stat names of the custom queries of the instance
CustomStatNames ==
    {q["stat"] : q \in Range(IGet(instance, "custom_queries", <<>>))}

\* the leaves the document holds under category cat, for every node and
\* every server, whether or not the check collects the category
DocLeaves(cat) ==
    LeavesOf([metric_categories |-> [keys |-> <<cat>>],
              collect_stats |-> {cat}], Doc)

\* collect_<prefix>_stats of the category is absent or affirmative
OptionOn(cat) ==
    LET opts == IGet(instance, "collect", [p \in {} |-> "True"])
        prefix == METRIC_CATEGORIES.val[cat]
    IN  prefix \notin DOMAIN opts
        \/ opts[prefix] \in {"True", "true", "yes", "1"}

\* C14: the leaves of a built-in category that no custom query names are
\* translated exactly when the option of the category is absent or
\* affirmative (a disabled category gives no sample for any node or
\* server), and the leaves of a category a custom query names always are.
C14_CollectOptions ==
    Walked =>
        /\ \A cat \in BuiltInCategories \ CustomStatNames :
             \A l \in DocLeaves(cat) :
                (SamplesOf(l) # <<>>) <=> OptionOn(cat)
        /\ \A cat \in CustomStatNames :
             \A l \in DocLeaves(cat) : SamplesOf(l) # <<>>

C14_Witness ==
    /\ Walked
    /\ T_JDBCPools \notin CustomStatNames
    /\ ~OptionOn(T_JDBCPools)
    /\ Cardinality(DocLeaves(T_JDBCPools)) = 3
    /\ \A l \in DocLeaves(T_JDBCPools) : SamplesOf(l) = <<>>
    /\ Cardinality(DocLeaves(T_JVMRuntime)) = 3
    /\ \A l \in DocLeaves(T_JVMRuntime) : Len(SamplesOf(l)) = 2

\* ---------------------------------------------------------------- C15
\* C15: over any run of the loop, whatever steps fail, submit_metadata is
\* called with a payload built with start_event=true at most once.
C15_StartEventOnce ==
    startEvents <= 1

\* the first submission raised, and the next cycle sent a second payload
\* marked as the start event
C15_Witness ==
    /\ startEvents = 2
    /\ cycle = 2
    /\ cyc.start_event
    /\ cyc.prev_raised

\* ---------------------------------------------------------------- C16
\* C16: in a cycle, run_checks is invoked only after the metadata step
\* passed (submitted or not due) and serialize_and_push only after
\* run_checks returned; once a step has raised no later step of the cycle
\* is invoked and the loop takes its one sleep of the cycle.
C16_RaiseAbandonsCycle ==
    /\ cyc.checks # "pending" => cyc.meta \in {"ok", "skipped"}
    /\ cyc.push # "pending" => cyc.checks = "ok"
    /\ cyc.meta \in {"build_raise", "submit_raise"} =>
          cyc.checks = "pending" /\ cyc.push = "pending"
    /\ cyc.checks = "raise" => cyc.push = "pending"
    /\ CycleRaised(cyc) =>
          /\ rpc \in {"sleep", "top", "done"}
          /\ rpc = "sleep" => sleeps = cycle - 1
          /\ rpc \in {"top", "done"} => sleeps = cycle

C16_Witness ==
    /\ cyc.meta = "skipped"
    /\ cyc.checks = "raise"
    /\ cyc.push = "pending"
    /\ rpc = "top"
    /\ sleeps = cycle
    /\ ~event

\* ---------------------------------------------------------------- C17
Started(c) ==
    IF c = "runner" THEN rpc # "new"
    ELSE IF c = "handler" THEN hpc # "new"
    ELSE comp[c] # "new"

\* the components Agent.run registers with the signal handler
ToRegister ==
    {"runner", "forwarder", "api"}
    \cup (IF cfg.dsd_enable THEN {"reporter", "dsd_server"} ELSE {})

\* C17: the scheduler, the API server, the dogstatsd reporter and the
\* dogstatsd runner are started only after the forwarder was started, and
\* the signal handler is started only after every component was registered
\* with it.
C17_ForwarderFirst ==
    /\ \A c \in {"runner", "api", "reporter", "dsd"} :
          Started(c) => Started("forwarder")
    /\ mlog # <<>> => mlog[1] = "forwarder.start"
    /\ Started("handler") => Range(registered) = ToRegister
    /\ \A c \in {"reporter", "dsd"} : Started(c) => cfg.dsd_enable

C17_Witness ==
    /\ cfg.dsd_enable
    /\ comp["dsd"] = "running" /\ comp["reporter"] = "running"
    /\ comp["api"] = "running" /\ rpc = "meta"
    /\ comp["forwarder"] = "running"
    /\ hpc = "running" /\ Len(registered) = 5

\* ---------------------------------------------------------------- C18
InLog(name) ==
    \E i \in DOMAIN mlog : mlog[i] = name

\* C18: when the dogstatsd runner ended with an error, the main path has
\* called reporter.stop() by the time it joins the scheduler, and has
\* stopped nothing else: scheduler and API server are stopped by a signal
\* only, and until then the main path stays in the scheduler join.  When
\* the runner ended without error the main path never calls reporter.stop().
C18_DsdErrorStopsReporterOnly ==
    /\ (dsdErr /\ mpc \notin {"dsd_join", "dsd_status"}) =>
          /\ InLog("reporter.stop")
          /\ "reporter" \in stopReq
    /\ InLog("reporter.stop") =>
          /\ dsdErr
          /\ \A i, j \in DOMAIN mlog :
                (mlog[i] = "reporter.stop" /\ mlog[j] = "runner.join") => i < j
    /\ (dsdErr /\ ~signalled) =>
          /\ stopReq \subseteq {"reporter"}
          /\ ~event
          /\ rpc # "done" /\ comp["api"] # "done"
          /\ ~InLog("runner.join")
          /\ mpc \in {"dsd_join", "dsd_status", "runner_join"}

C18_Witness ==
    /\ cfg.dsd_enable /\ dsdErr
    /\ mpc = "runner_join"
    /\ InLog("reporter.stop")
    /\ stopReq = {"reporter"}
    /\ ~signalled
    /\ rpc = "sleep" /\ cycle = 2

\* ---------------------------------------------------------------- C19
\* C19: a CountStatistic leaf whose unit is in custom_queries_units_gauge,
\* under a built-in category that no custom query names and whose prefix no
\* custom query uses, is emitted as MONOTONIC_COUNT.
C19_RemapCustomOnly ==
    Walked =>
        \A l \in LeavesOf(chk, Doc) :
            (/\ LeafOf(Doc, l).tag = "CountStatistic"
             /\ Get(LeafOf(Doc, l), "unit") \in UnitsGauge
             /\ l.category \in BuiltInCategories \ CustomStatNames
             /\ PrefixOf(l) \notin CustomPrefixes)
            => SamplesOf(l)[1].kind = "MONOTONIC_COUNT"

\* without any custom query, a count under jdbc with a unit of the set is
\* emitted as a gauge
C19_Witness ==
    /\ Walked
    /\ IGet(instance, "custom_queries", <<>>) = <<>>
    /\ T_jdbc \in chk.custom_stats
    /\ \E l \in LeavesOf(chk, Doc) :
         /\ l.category = T_JDBCPools
         /\ LeafOf(Doc, l).tag = "CountStatistic"
         /\ Get(LeafOf(Doc, l), "unit") \in UnitsGauge
         /\ Len(SamplesOf(l)) = 1
         /\ SamplesOf(l)[1].kind = "GAUGE"

\* ---------------------------------------------------------------- C20
\* the tag-key list a configuration holds for a prefix, <<>> when none
TagKeysIn(nested, prefix) ==
    IF DictHas(nested, prefix) THEN nested.val[prefix] ELSE <<>>

\* the metric prefix of the last custom query that names the stat
LastPrefix(stat) ==
    LET qs == IGet(instance, "custom_queries", <<>>)
        last == CHOOSE i \in DOMAIN qs :
                    /\ qs[i]["stat"] = stat
                    /\ \A j \in DOMAIN qs : qs[j]["stat"] = stat => j <= i
    IN  qs[last]["metric_prefix"]

\* C20: after construction, a built-in category that a custom query names
\* has the metric prefix of the last such query; a built-in category that no
\* custom query names keeps its built-in metric prefix and the built-in
\* tag-key list of that prefix, whatever metric_prefix the custom queries
\* use.
C20_CustomLeavesBuiltIns ==
    chk.state = "ready" =>
        \A cat \in BuiltInCategories :
            IF cat \in CustomStatNames
                THEN chk.metric_categories.val[cat] = LastPrefix(cat)
                ELSE /\ chk.metric_categories.val[cat]
                          = METRIC_CATEGORIES.val[cat]
                     /\ TagKeysIn(chk.nested_tags, METRIC_CATEGORIES.val[cat])
                          = TagKeysIn(NESTED_TAGS, METRIC_CATEGORIES.val[cat])

\* a custom query for another stat with metric_prefix jdbc has emptied the
\* tag-key list of the built-in jdbc category, whose samples lose their tags
C20_Witness ==
    /\ Walked
    /\ T_JDBCPools \notin CustomStatNames
    /\ T_jdbc \in CustomPrefixes
    /\ chk.metric_categories.val[T_JDBCPools] = T_jdbc
    /\ TagKeysIn(NESTED_TAGS, T_jdbc) # <<>>
    /\ chk.nested_tags.val[T_jdbc] = <<>>
    /\ \E l \in LeavesOf(chk, Doc) :
         /\ l.category = T_JDBCPools
         /\ Len(l.path) = 4
         /\ SamplesOf(l)[1].tags = ServerTags(l)

\* ---------------------------------------------------------------- C21
MetaRaised(c) ==
    c.meta \in {"build_raise", "submit_raise"}

\* C21: the timestamp changes only in a cycle whose metadata was built and
\* submitted, to the start time of that cycle; a cycle whose metadata step
\* raised leaves it as it was, so that at the start of the next cycle the
\* metadata is due again whatever time has passed; and a cycle in which the
\* metadata is due attempts the submission.
C21_FailedSubmissionRetried ==
    [][/\ meta_ts' # meta_ts =>
            (cyc'.meta = "ok" /\ meta_ts' = current_ts)
       /\ MetaRaised(cyc') => (meta_ts' = meta_ts /\ meta_ts' = cyc'.prev_ts)
       /\ (rpc = "top" /\ rpc' = "meta" /\ MetaRaised(cyc)) =>
            /\ meta_ts' = cyc.prev_ts
            /\ MetaDue(meta_ts', current_ts', cfg.host_metadata_interval)
       /\ (rpc = "meta" /\ rpc' # "meta"
           /\ MetaDue(meta_ts, current_ts, cfg.host_metadata_interval)) =>
            cyc'.meta \in {"ok", "build_raise", "submit_raise"}
      ]_vars

\* the first cycle failed to submit, and the second, started at the same
\* clock value, submitted again and recorded the time
C21_Witness ==
    /\ cycle = 2
    /\ current_ts = 0
    /\ cyc.prev_ts = NoneTs
    /\ cyc.prev_raised
    /\ metaFailed
    /\ cyc.meta = "ok"
    /\ meta_ts = 0

\* ---------------------------------------------------------------- C22
\* stop() was called on the runner before its thread was started
StoppedBeforeStart ==
    event /\ rpc = "new"

\* C22: the event set by stop() stays set, also across start(), and no cycle
\* begins while it is set; a runner stopped before any cycle has submitted
\* no metadata, run no check, pushed nothing and slept never; a runner
\* stopped before start() terminates once started, and the runner join of
\* the main path then returns.
C22_StopBeforeStart ==
    /\ [][event => (event' /\ cycle' = cycle)]_vars
    /\ []((event /\ cycle = 0) =>
            /\ rpc \in {"new", "top", "done"}
            /\ cyc = NewCycle(NoneTs, FALSE)
            /\ meta_ts = NoneTs /\ startEvents = 0
            /\ checkOut = NoOutcome /\ sleeps = 0)
    /\ (StoppedBeforeStart ~> (rpc = "done" /\ cycle = 0))
    /\ ((rpc = "done" /\ mpc = "runner_join") ~> InLog("runner.join"))

\* the handler, started at line 282, has called stop() on the runner while
\* the main path has not yet reached runner.start() at line 284
C22_Witness ==
    /\ StoppedBeforeStart
    /\ mpc = "runner_start"
    /\ hpc = "running" /\ signalled
    /\ "runner" \in stopReq
    /\ ~InLog("runner.start")

====
